---------------------------- MODULE Spec2Model ----------------------------
(***************************************************************************)
(* Booth-booking backend: the booking controller (getBookings, getBooking, *)
(* createBooking, updateBooking, deleteBooking), the Booking schema with   *)
(* its pre('save') hook, the Exhibition schema and the exhibition          *)
(* controller, as a state machine over the two MongoDB collections.        *)
(*                                                                         *)
(* A request handler is a sequence of steps, one per `await` on the store; *)
(* between two steps of one request the steps of another may run.  Spec    *)
(* runs one request at a time, SpecConc interleaves two, SpecFail runs one *)
(* at a time and lets a store call throw, SpecClock runs one at a time     *)
(* while the server clock advances.                                        *)
(***************************************************************************)
EXTENDS Integers, FiniteSets, Sequences, TLC

VARIABLES
    exhibitions,     \* Exhibition collection: id -> document
    bookings,        \* Booking collection: id -> document
    nextExhibition,  \* next fresh Exhibition _id
    nextBooking,     \* next fresh Booking _id
    now,             \* the clock: an instant, in ticks
    served,          \* requests received so far
    initialQuota,    \* ghost: the quota an exhibition was published with
    req              \* per request slot: position, inputs, locals, response

vars == <<exhibitions, bookings, nextExhibition, nextBooking, now, served,
          initialQuota, req>>

db == <<exhibitions, bookings>>

-----------------------------------------------------------------------------
(* Bounds of the model *)

MaxExhibitions == 2      \* Exhibition ids ever created
MaxBookings == 2         \* Booking ids ever created
MaxAmount == 4           \* largest amount a payload carries
MaxDay == 1              \* days the clock advances
TicksPerDay == 2         \* instants told apart within one day
MaxRequests == 4         \* requests in one run

(* Program constants *)

MaxBoothsPerUser == 6    \* the per-user, per-exhibition cap
MinAmount == 1           \* BookingSchema.amount min
MinQuota == 0            \* ExhibitionSchema.*BoothQuota min

-----------------------------------------------------------------------------
(* Principals: req.user as the auth middleware supplies it *)

Members == {"alice", "bob"}
Admins == {"root"}
Users == Members \cup Admins

Role(u) == IF u \in Admins THEN "admin" ELSE "member"

BoothTypes == {"small", "big"}

ExhibitionIds == 1..MaxExhibitions
BookingIds == 1..MaxBookings
\* instants: the clock runs over days 0..MaxDay, start dates reach one day on
ClockInstants == 0..((MaxDay + 1) * TicksPerDay - 1)
Instants == 0..((MaxDay + 2) * TicksPerDay - 1)

(* Request payloads *)
\* "" stands for a field the payload omits (undefined), 0 for an omitted or
\* zero amount and for an omitted exhibition
BoothTypeInputs == BoothTypes \cup {"huge", ""}
AmountInputs == (0 - 1)..MaxAmount
QuotaInputs == {0 - 1, MaxAmount}

-----------------------------------------------------------------------------
(* Documents *)

NoExhibition ==
    [exists |-> FALSE, startDate |-> 0, smallBoothQuota |-> 0, bigBoothQuota |-> 0]

NoBooking ==
    [exists |-> FALSE, user |-> "", exhibition |-> 0, boothType |-> "", amount |-> 0]

Quota(e, t) == IF t = "small" THEN e.smallBoothQuota ELSE e.bigBoothQuota

\* exhibition.smallBoothQuota += d  /  exhibition.bigBoothQuota += d
AddQuota(e, t, d) ==
    IF t = "small"
    THEN [e EXCEPT !.smallBoothQuota = @ + d]
    ELSE [e EXCEPT !.bigBoothQuota = @ + d]

\* dayjs(t).endOf('day'): the last instant of t's calendar day
EndOfDay(t) == (t \div TicksPerDay) * TicksPerDay + (TicksPerDay - 1)

\* a comparison of the two instants
IsBeforeDay_Instant(startDate, current) == startDate < current

\* a comparison that also takes the current day for past
IsBeforeDay_OrSame(startDate, current) ==
    startDate \div TicksPerDay <= current \div TicksPerDay

\* dayjs(startDate).isBefore(dayjs(), 'day'): the end of startDate's day
\* lies before the current instant
IsBeforeDay(startDate, current) == EndOfDay(startDate) < current

RECURSIVE SumAmount(_, _)
SumAmount(bs, ids) ==
    IF ids = {} THEN 0
    ELSE LET i == CHOOSE x \in ids : TRUE
         IN  bs[i].amount + SumAmount(bs, ids \ {i})

\* Booking.aggregate([{$match: {exhibition, boothType}}, {$group: {$sum: '$amount'}}])
TotalBooked(bs, e, t) ==
    SumAmount(bs, {i \in BookingIds :
        bs[i].exists /\ bs[i].exhibition = e /\ bs[i].boothType = t})

\* Booking.aggregate([{$match: {user, exhibition}}, {$group: {$sum: '$amount'}}])
UserTotalBooths(bs, u, e) ==
    SumAmount(bs, {i \in BookingIds :
        bs[i].exists /\ bs[i].user = u /\ bs[i].exhibition = e})

\* an aggregate that finds no other booking
OtherBookingsTotal_Mutant(bs, u, e, self) == 0

\* the pre('save') aggregate: as above with _id: {$ne: this._id}
OtherBookingsTotal(bs, u, e, self) ==
    SumAmount(bs, {i \in BookingIds :
        bs[i].exists /\ bs[i].user = u /\ bs[i].exhibition = e /\ i # self})

-----------------------------------------------------------------------------
(* Schema validation and the write primitives of the store *)

\* ExhibitionSchema: smallBoothQuota / bigBoothQuota min: [0, ...]
ExhibitionValid(e) ==
    e.smallBoothQuota >= MinQuota /\ e.bigBoothQuota >= MinQuota

\* BookingSchema: boothType enum ['small', 'big'], amount min: [1, ...]
BookingValid(b) ==
    b.boothType \in BoothTypes /\ b.amount >= MinAmount

\* a hook that lets every save through
PreSaveOk_Mutant(bs, doc, self, amountModified) == TRUE

\* BookingSchema.pre('save'): skipped unless amount is modified; otherwise the
\* other bookings of (user, exhibition) plus this amount must not exceed 6.
\* next(err) is called first, so the save is rejected.
PreSaveOk(bs, doc, self, amountModified) ==
    \/ ~amountModified
    \/ OtherBookingsTotal(bs, doc.user, doc.exhibition, self) + doc.amount
           <= MaxBoothsPerUser

\* document.save() sends $set of the modified paths only: the quota fields in
\* `types` take the in-memory values, every other stored field stays.
SetQuotas(stored, local, types) ==
    [stored EXCEPT
        !.smallBoothQuota = IF "small" \in types THEN local.smallBoothQuota ELSE @,
        !.bigBoothQuota   = IF "big" \in types THEN local.bigBoothQuota ELSE @]

\* booking.save() sends $set of the modified paths only
SetModified(stored, local, old) ==
    [stored EXCEPT
        !.user = IF local.user # old.user THEN local.user ELSE @,
        !.exhibition = IF local.exhibition # old.exhibition
                       THEN local.exhibition ELSE @,
        !.boothType = IF local.boothType # old.boothType
                      THEN local.boothType ELSE @,
        !.amount = IF local.amount # old.amount THEN local.amount ELSE @]

-----------------------------------------------------------------------------
(* Request slots *)

Procs == {1, 2}

IdleReq ==
    [pc |-> "idle", op |-> "none",
     user |-> "",                 \* req.user.id
     id |-> 0,                    \* req.params.id
     bodyExhibition |-> 0,        \* req.body.exhibition
     bodyUser |-> "",             \* req.body.user as the client sent it
     boothType |-> "",            \* req.body.boothType
     amount |-> 0,                \* req.body.amount
     startDate |-> {},            \* req.body.startDate ({} when omitted)
     clock |-> 0,                 \* dayjs() when the request is handled
     exhibition |-> NoExhibition, \* the in-memory Exhibition document
     exhibitionId |-> 0,          \*   and its _id
     booking |-> NoBooking,       \* the in-memory Booking document
     bookingId |-> 0,             \*   and its _id
     old |-> NoBooking,           \* the booking as it was read
     touched |-> {},              \* modified quota paths of `exhibition`
     totalBooked |-> 0,
     userTotalBooths |-> 0,
     status |-> 0,                \* res.status(...)
     message |-> "",
     data |-> {},                 \* _ids of the bookings in the response
     pre |-> <<[e \in ExhibitionIds |-> NoExhibition],
               [b \in BookingIds |-> NoBooking]>>]

Quiet(p) == req[p].pc = "idle"
Done(p) == req[p].pc = "done"

\* return res.status(code).json({success, message})
Reply(r, code, msg) ==
    [r EXCEPT !.pc = "done", !.status = code, !.message = msg]

\* a request is received
Received ==
    /\ served < MaxRequests
    /\ served' = served + 1

\* a request as it enters its handler
Arrive(op, u, id, e, t, a) ==
    [IdleReq EXCEPT !.op = op, !.user = u, !.id = id, !.bodyExhibition = e,
                    !.boothType = t, !.amount = a, !.clock = now, !.pre = db]

NoStoreChange == UNCHANGED <<exhibitions, bookings, nextExhibition, nextBooking,
                             now, initialQuota>>

Init ==
    /\ exhibitions = [e \in ExhibitionIds |-> NoExhibition]
    /\ bookings = [b \in BookingIds |-> NoBooking]
    /\ nextExhibition = 1
    /\ nextBooking = 1
    /\ now = 0
    /\ served = 0
    /\ initialQuota = [e \in ExhibitionIds |-> [small |-> 0, big |-> 0]]
    /\ req = [p \in Procs |-> IdleReq]

-----------------------------------------------------------------------------
(* getBookings: GET /booking ;  getBooking: GET /booking/:id *)

\* a query that matches every booking for every principal
ListQuery_Mutant(u) == Users

\* the query of getBookings, as the set of owners it matches:
\* {} for an admin, {user: req.user.id} for a member
ListQuery(u) == IF Role(u) = "admin" THEN Users ELSE {u}

\* Booking.find(query): the _ids of the matching bookings
Find(bs, owners) == {i \in BookingIds : bs[i].exists /\ bs[i].user \in owners}

getBookings(p, u) ==
    /\ Quiet(p)
    /\ Received
    /\ LET r == Arrive("getBookings", u, 0, 0, "", 0)
       IN  req' = [req EXCEPT ![p] =
             Reply([r EXCEPT !.data = Find(bookings, ListQuery(u))], 200, "")]
    /\ NoStoreChange

\* an ownership test that lets every principal through
NotOwner_Mutant(booking, u) == FALSE

\* booking.user._id.toString() !== req.user.id && req.user.role !== 'admin'
NotOwner(booking, u) == booking.user # u /\ Role(u) # "admin"

\* Booking.findById, then the ownership test
getBooking(p, u, id) ==
    /\ Quiet(p)
    /\ Received
    /\ LET r == Arrive("getBooking", u, id, 0, "", 0)
           booking == bookings[id]
       IN  req' = [req EXCEPT ![p] =
             IF ~booking.exists
               THEN Reply(r, 404, "Booking not found")
             ELSE IF NotOwner(booking, u)
               THEN Reply(r, 401, "Not authorized to access this booking")
             ELSE Reply([r EXCEPT !.booking = booking, !.data = {id}], 200, "")]
    /\ NoStoreChange

-----------------------------------------------------------------------------
(* createBooking: POST /booking, members only *)

\* Booking ids still to hand out, counting the creations in flight
FreshBookingIds ==
    nextBooking + Cardinality({q \in Procs :
        req[q].op = "createBooking" /\ req[q].pc # "done"}) <= MaxBookings

\* a route that also lets administrators create bookings
CreateBookingRoles_Mutant == {"member", "admin"}

\* authorize('member') on POST /booking: the roles the route admits
CreateBookingRoles == {"member"}

\* authorize(...roles): the principal's role is one of the roles of the route
Authorized(u, roles) == Role(u) \in roles

\* router.post('/', protect, authorize('member'), ...): a principal of another
\* role is turned away before the handler runs
createBooking_authorize(p, u) ==
    /\ Quiet(p)
    /\ Received
    /\ ~Authorized(u, CreateBookingRoles)
    /\ req' = [req EXCEPT ![p] =
          Reply(Arrive("createBooking", u, 0, 0, "", 0), 403,
                "Not authorized to access this route")]
    /\ NoStoreChange

\* an owner taken from the payload when it names one
OwnerOf_Mutant(principal, bodyUser) ==
    IF bodyUser # "" THEN bodyUser ELSE principal

\* req.body.user = req.user.id: the payload's user is overwritten
OwnerOf(principal, bodyUser) == principal

\* a handler that looks at the booth type before it loads the exhibition
createBooking_findById_Mutant(p, u, bu, e, t, a) ==
    /\ Quiet(p)
    /\ Received
    /\ Authorized(u, CreateBookingRoles)
    /\ FreshBookingIds
    /\ LET r == [Arrive("createBooking", u, 0, e, t, a) EXCEPT !.bodyUser = bu]
           exhibition == exhibitions[e]
       IN  req' = [req EXCEPT ![p] =
             IF t \notin BoothTypes
               THEN Reply(r, 400, "Booth type must be either small or big")
             ELSE IF ~exhibition.exists
               THEN Reply(r, 404, "Exhibition not found")
             ELSE IF IsBeforeDay(exhibition.startDate, now)
               THEN Reply(r, 400, "Cannot book for an exhibition that has already started")
             ELSE [r EXCEPT !.pc = "createBooking_aggregateBooked",
                            !.exhibition = exhibition, !.exhibitionId = e]]
    /\ NoStoreChange

\* Exhibition.findById, then the booth type and start date checks
createBooking_findById(p, u, bu, e, t, a) ==
    /\ Quiet(p)
    /\ Received
    /\ Authorized(u, CreateBookingRoles)
    /\ FreshBookingIds
    /\ LET r == [Arrive("createBooking", u, 0, e, t, a) EXCEPT !.bodyUser = bu]
           exhibition == exhibitions[e]
       IN  req' = [req EXCEPT ![p] =
             IF ~exhibition.exists
               THEN Reply(r, 404, "Exhibition not found")
             ELSE IF t \notin BoothTypes
               THEN Reply(r, 400, "Booth type must be either small or big")
             ELSE IF IsBeforeDay(exhibition.startDate, now)
               THEN Reply(r, 400, "Cannot book for an exhibition that has already started")
             ELSE [r EXCEPT !.pc = "createBooking_aggregateBooked",
                            !.exhibition = exhibition, !.exhibitionId = e]]
    /\ NoStoreChange

\* a quota check against the counter less the aggregated bookings
NotEnoughQuota_Mutant(amount, availableQuota, totalBooked) ==
    amount > availableQuota - totalBooked

\* the quota check: amount against the counter of the document read above
NotEnoughQuota(amount, availableQuota, totalBooked) ==
    amount > availableQuota

\* Booking.aggregate over (exhibition, boothType), then the quota check
createBooking_aggregateBooked(p) ==
    /\ req[p].pc = "createBooking_aggregateBooked"
    /\ UNCHANGED served
    /\ LET r == req[p]
           availableQuota == Quota(r.exhibition, r.boothType)
           totalBooked == TotalBooked(bookings, r.exhibitionId, r.boothType)
       IN  req' = [req EXCEPT ![p] =
             IF NotEnoughQuota(r.amount, availableQuota, totalBooked)
               THEN Reply([r EXCEPT !.totalBooked = totalBooked],
                          400, "Not enough booths available")
             ELSE [r EXCEPT !.pc = "createBooking_aggregateUser",
                            !.totalBooked = totalBooked]]
    /\ NoStoreChange

\* a cap check that already refuses a total of exactly 6
OverCap_Mutant(userTotalBooths, amount) ==
    userTotalBooths + amount >= MaxBoothsPerUser

\* the service-level cap check
OverCap(userTotalBooths, amount) ==
    userTotalBooths + amount > MaxBoothsPerUser

\* Booking.aggregate over (user, exhibition), then the cap check
createBooking_aggregateUser(p) ==
    /\ req[p].pc = "createBooking_aggregateUser"
    /\ UNCHANGED served
    /\ LET r == req[p]
           userTotalBooths == UserTotalBooths(bookings, r.user, r.exhibitionId)
       IN  req' = [req EXCEPT ![p] =
             IF OverCap(userTotalBooths, r.amount)
               THEN Reply([r EXCEPT !.userTotalBooths = userTotalBooths],
                          400, "Total number of booths per exhibition cannot exceed 6")
             ELSE [r EXCEPT !.pc = "createBooking_preSave",
                            !.userTotalBooths = userTotalBooths]]
    /\ NoStoreChange

\* Booking.create(req.body), first half: schema validation and the pre('save')
\* hook's aggregate.  Either error lands in the catch: code is not 11000, so 500.
createBooking_preSave(p) ==
    /\ req[p].pc = "createBooking_preSave"
    /\ UNCHANGED served
    /\ LET r == req[p]
           doc == [exists |-> TRUE, user |-> OwnerOf(r.user, r.bodyUser),
                   exhibition |-> r.bodyExhibition,
                   boothType |-> r.boothType, amount |-> r.amount]
       IN  req' = [req EXCEPT ![p] =
             IF ~BookingValid(doc)
               THEN Reply(r, 500, "Server Error")
             ELSE IF ~PreSaveOk(bookings, doc, nextBooking, TRUE)
               THEN Reply(r, 500, "Server Error")
             ELSE [r EXCEPT !.pc = "createBooking_create", !.booking = doc]]
    /\ NoStoreChange

\* Booking.create, second half: the insert; then the in-memory quota decrement
createBooking_create(p) ==
    /\ req[p].pc = "createBooking_create"
    /\ UNCHANGED served
    /\ LET r == req[p]
       IN  /\ bookings' = [bookings EXCEPT ![nextBooking] = r.booking]
           /\ nextBooking' = nextBooking + 1
           /\ req' = [req EXCEPT ![p] =
                [r EXCEPT !.pc = "createBooking_save",
                          !.bookingId = nextBooking,
                          !.exhibition = AddQuota(r.exhibition, r.boothType,
                                                  0 - r.amount),
                          !.touched = {r.boothType}]]
    /\ UNCHANGED <<exhibitions, nextExhibition, now, initialQuota>>

\* a save whose filter matches every exhibition
SaveExhibition_Mutant(p, nextPc) ==
    LET r == req[p]
        stored == exhibitions[r.exhibitionId]
    IN  IF ~ExhibitionValid(r.exhibition) \/ ~stored.exists
        THEN /\ req' = [req EXCEPT ![p] = Reply(r, 500, "Server Error")]
             /\ UNCHANGED exhibitions
        ELSE /\ exhibitions' = [e \in ExhibitionIds |->
                                  IF exhibitions[e].exists
                                  THEN SetQuotas(exhibitions[e], r.exhibition, r.touched)
                                  ELSE exhibitions[e]]
             /\ req' = [req EXCEPT ![p].pc = nextPc]

\* exhibition.save(): validation, then $set of the modified quota.  A failed
\* validation or a document that is gone throws into the catch.
SaveExhibition(p, nextPc) ==
    LET r == req[p]
        stored == exhibitions[r.exhibitionId]
    IN  IF ~ExhibitionValid(r.exhibition) \/ ~stored.exists
        THEN /\ req' = [req EXCEPT ![p] = Reply(r, 500, "Server Error")]
             /\ UNCHANGED exhibitions
        ELSE /\ exhibitions' = [exhibitions EXCEPT ![r.exhibitionId] =
                                  SetQuotas(stored, r.exhibition, r.touched)]
             /\ req' = [req EXCEPT ![p].pc = nextPc]

createBooking_save(p) ==
    /\ req[p].pc = "createBooking_save"
    /\ UNCHANGED served
    /\ SaveExhibition(p, "createBooking_populate")
    /\ UNCHANGED <<bookings, nextExhibition, nextBooking, now, initialQuota>>

\* Booking.findById(...).populate(...), then 201
createBooking_populate(p) ==
    /\ req[p].pc = "createBooking_populate"
    /\ UNCHANGED served
    /\ req' = [req EXCEPT ![p] = Reply(req[p], 201, "")]
    /\ NoStoreChange

-----------------------------------------------------------------------------
(* deleteBooking: DELETE /booking/:id *)

\* a restore that always credits the small counter
RestoreQuota_Mutant(exhibition, booking) ==
    AddQuota(exhibition, "small", booking.amount)

\* exhibition.<boothType>BoothQuota += booking.amount
RestoreQuota(exhibition, booking) ==
    AddQuota(exhibition, booking.boothType, booking.amount)

\* a lookup by _id alone
FindOne_Mutant(bs, id, u) ==
    IF bs[id].exists THEN bs[id] ELSE NoBooking

\* Booking.findOne({_id, user?}): admins match any booking, members their own
FindOne(bs, id, u) ==
    IF bs[id].exists /\ (Role(u) = "admin" \/ bs[id].user = u)
    THEN bs[id] ELSE NoBooking

deleteBooking_findOne(p, u, id) ==
    /\ Quiet(p)
    /\ Received
    /\ LET r == Arrive("deleteBooking", u, id, 0, "", 0)
           booking == FindOne(bookings, id, u)
       IN  req' = [req EXCEPT ![p] =
             IF ~booking.exists
               THEN Reply(r, 404, "Booking not found")
             ELSE [r EXCEPT !.pc = "deleteBooking_findById",
                            !.booking = booking, !.old = booking,
                            !.bookingId = id]]
    /\ NoStoreChange

\* a delete that gives up when the exhibition is gone
deleteBooking_findById_Mutant(p) ==
    /\ req[p].pc = "deleteBooking_findById"
    /\ UNCHANGED served
    /\ LET r == req[p]
           exhibition == exhibitions[r.booking.exhibition]
       IN  req' = [req EXCEPT ![p] =
             IF exhibition.exists
               THEN [r EXCEPT !.pc = "deleteBooking_save",
                              !.exhibitionId = r.booking.exhibition,
                              !.exhibition = RestoreQuota(exhibition, r.booking),
                              !.touched = {r.booking.boothType}]
             ELSE Reply(r, 404, "Exhibition not found")]
    /\ NoStoreChange

\* Exhibition.findById(booking.exhibition); the quota is restored in memory
deleteBooking_findById(p) ==
    /\ req[p].pc = "deleteBooking_findById"
    /\ UNCHANGED served
    /\ LET r == req[p]
           exhibition == exhibitions[r.booking.exhibition]
       IN  req' = [req EXCEPT ![p] =
             IF exhibition.exists
               THEN [r EXCEPT !.pc = "deleteBooking_save",
                              !.exhibitionId = r.booking.exhibition,
                              !.exhibition = RestoreQuota(exhibition, r.booking),
                              !.touched = {r.booking.boothType}]
             ELSE [r EXCEPT !.pc = "deleteBooking_deleteOne"]]
    /\ NoStoreChange

deleteBooking_save(p) ==
    /\ req[p].pc = "deleteBooking_save"
    /\ UNCHANGED served
    /\ SaveExhibition(p, "deleteBooking_deleteOne")
    /\ UNCHANGED <<bookings, nextExhibition, nextBooking, now, initialQuota>>

\* a delete that restores the quota and answers, but removes nothing
deleteBooking_deleteOne_Mutant(p) ==
    /\ req[p].pc = "deleteBooking_deleteOne"
    /\ UNCHANGED served
    /\ req' = [req EXCEPT ![p] = Reply(req[p], 200, "Booking deleted successfully")]
    /\ NoStoreChange

\* Booking.deleteOne({_id}), then 200
deleteBooking_deleteOne(p) ==
    /\ req[p].pc = "deleteBooking_deleteOne"
    /\ UNCHANGED served
    /\ bookings' = [bookings EXCEPT ![req[p].bookingId] = NoBooking]
    /\ req' = [req EXCEPT ![p] = Reply(req[p], 200, "Booking deleted successfully")]
    /\ UNCHANGED <<exhibitions, nextExhibition, nextBooking, now, initialQuota>>

-----------------------------------------------------------------------------
(* updateBooking: PUT /booking/:id *)

\* Booking.findOne, then the booth type check
updateBooking_findOne(p, u, id, e, t, a) ==
    /\ Quiet(p)
    /\ Received
    /\ LET r == Arrive("updateBooking", u, id, e, t, a)
           booking == FindOne(bookings, id, u)
       IN  req' = [req EXCEPT ![p] =
             IF ~booking.exists
               THEN Reply(r, 404, "Booking not found")
             ELSE IF t \notin BoothTypes
               THEN Reply(r, 400, "Booth type must be either small or big")
             ELSE [r EXCEPT !.pc = "updateBooking_findById",
                            !.booking = booking, !.old = booking,
                            !.bookingId = id]]
    /\ NoStoreChange

\* req.body.boothType || booking.boothType ;  req.body.amount || booking.amount
NewBoothType(bodyType, booking) == IF bodyType = "" THEN booking.boothType ELSE bodyType
NewAmount(bodyAmount, booking) == IF bodyAmount = 0 THEN booking.amount ELSE bodyAmount

\* a quota check on the document as read, without the old reservation
QuotaInsufficient_Mutant(exhibition, booking, newBoothType, newAmount) ==
    Quota(exhibition, newBoothType) < newAmount

\* quotaToCheck < newAmount, on the document with the old reservation restored
QuotaInsufficient(exhibition, booking, newBoothType, newAmount) ==
    Quota(RestoreQuota(exhibition, booking), newBoothType) < newAmount

\* Exhibition.findById(booking.exhibition); restore the old reservation in
\* memory, check the quota, reserve the new one in memory
updateBooking_findById(p) ==
    /\ req[p].pc = "updateBooking_findById"
    /\ UNCHANGED served
    /\ LET r == req[p]
           exhibition == exhibitions[r.booking.exhibition]
           restored == RestoreQuota(exhibition, r.booking)
           newBoothType == NewBoothType(r.boothType, r.booking)
           newAmount == NewAmount(r.amount, r.booking)
       IN  req' = [req EXCEPT ![p] =
             IF ~exhibition.exists
               THEN Reply(r, 404, "Exhibition not found")
             ELSE IF QuotaInsufficient(exhibition, r.booking, newBoothType, newAmount)
               THEN Reply(r, 400, "Not enough booths available")
             ELSE [r EXCEPT !.pc = "updateBooking_save",
                            !.exhibitionId = r.booking.exhibition,
                            !.exhibition = AddQuota(restored, newBoothType,
                                                    0 - newAmount),
                            !.touched = {r.booking.boothType, newBoothType}]]
    /\ NoStoreChange

\* exhibition.save(); then booking.amount / booking.boothType are assigned
updateBooking_save(p) ==
    /\ req[p].pc = "updateBooking_save"
    /\ UNCHANGED served
    /\ SaveExhibition(p, "updateBooking_preSave")
    /\ UNCHANGED <<bookings, nextExhibition, nextBooking, now, initialQuota>>

\* an assignment that also takes the exhibition from the payload
AssignBooking_Mutant(booking, body) ==
    [booking EXCEPT !.amount = NewAmount(body.amount, booking),
                    !.boothType = NewBoothType(body.boothType, booking),
                    !.exhibition = IF body.exhibition # 0
                                   THEN body.exhibition ELSE @]

\* booking.amount = newAmount; booking.boothType = newBoothType: whatever
\* else req.body carries is not assigned
AssignBooking(booking, body) ==
    [booking EXCEPT !.amount = NewAmount(body.amount, booking),
                    !.boothType = NewBoothType(body.boothType, booking)]

\* a catch that answers every error alike
UpdateCatch_Mutant(r, capError) == Reply(r, 500, "Server Error")

\* the catch of updateBooking: the hook's message gives 400, anything else 500
UpdateCatch(r, capError) ==
    IF capError
    THEN Reply(r, 400, "Total number of booths cannot exceed 6 per exhibition")
    ELSE Reply(r, 500, "Server Error")

\* booking.save(), first half: validation and the pre('save') hook
updateBooking_preSave(p) ==
    /\ req[p].pc = "updateBooking_preSave"
    /\ UNCHANGED served
    /\ LET r == req[p]
           doc == AssignBooking(r.booking,
                      [exhibition |-> r.bodyExhibition, boothType |-> r.boothType,
                       amount |-> r.amount])
           amountModified == doc.amount # r.old.amount
       IN  req' = [req EXCEPT ![p] =
             IF ~BookingValid(doc)
               THEN UpdateCatch([r EXCEPT !.booking = doc], FALSE)
             ELSE IF ~PreSaveOk(bookings, doc, r.bookingId, amountModified)
               THEN UpdateCatch([r EXCEPT !.booking = doc], TRUE)
             ELSE [r EXCEPT !.pc = "updateBooking_update", !.booking = doc]]
    /\ NoStoreChange

\* booking.save(), second half: $set of the modified paths; a booking that is
\* gone throws (DocumentNotFoundError).  Nothing modified: nothing is sent.
updateBooking_update(p) ==
    /\ req[p].pc = "updateBooking_update"
    /\ UNCHANGED served
    /\ LET r == req[p]
           stored == bookings[r.bookingId]
           modified == r.booking # r.old
       IN  IF modified /\ ~stored.exists
           THEN /\ req' = [req EXCEPT ![p] = UpdateCatch(r, FALSE)]
                /\ UNCHANGED bookings
           ELSE /\ bookings' = [bookings EXCEPT ![r.bookingId] =
                     IF modified THEN SetModified(stored, r.booking, r.old)
                     ELSE stored]
                /\ req' = [req EXCEPT ![p].pc = "updateBooking_populate"]
    /\ UNCHANGED <<exhibitions, nextExhibition, nextBooking, now, initialQuota>>

\* Booking.findById(...).populate(...), then 200
updateBooking_populate(p) ==
    /\ req[p].pc = "updateBooking_populate"
    /\ UNCHANGED served
    /\ req' = [req EXCEPT ![p] = Reply(req[p], 200, "")]
    /\ NoStoreChange

-----------------------------------------------------------------------------
(* The exhibition controller: admin routes, one store call each *)

\* a field of req.body: {} when the payload omits it, {v} when it carries v
Given(field) == field # {}
ValueOf(field) == CHOOSE v \in field : TRUE

ExhibitionBodies(days, quotas) ==
    [startDate : {{}} \cup {{d} : d \in days},
     smallBoothQuota : {{}} \cup {{q} : q \in quotas},
     bigBoothQuota : {{}} \cup {{q} : q \in quotas}]

\* createExhibition: the start date check, then Exhibition.create.  A failed
\* validation rejects the promise of a handler without try/catch: no response.
createExhibition(p, startDate, smallBoothQuota, bigBoothQuota) ==
    /\ Quiet(p)
    /\ Received
    /\ nextExhibition <= MaxExhibitions
    /\ LET r == [Arrive("createExhibition", "root", 0, 0, "", 0)
                   EXCEPT !.startDate = {startDate}]
           exhibition == [exists |-> TRUE, startDate |-> startDate,
                          smallBoothQuota |-> smallBoothQuota,
                          bigBoothQuota |-> bigBoothQuota]
       IN  IF IsBeforeDay(startDate, now)
           THEN /\ req' = [req EXCEPT ![p] =
                     Reply(r, 400, "Start date cannot be earlier than current date")]
                /\ UNCHANGED <<exhibitions, nextExhibition, initialQuota>>
           ELSE IF ~ExhibitionValid(exhibition)
           THEN /\ req' = [req EXCEPT ![p] = Reply(r, 0, "unhandled rejection")]
                /\ UNCHANGED <<exhibitions, nextExhibition, initialQuota>>
           ELSE /\ exhibitions' = [exhibitions EXCEPT ![nextExhibition] = exhibition]
                /\ initialQuota' = [initialQuota EXCEPT ![nextExhibition] =
                     [small |-> smallBoothQuota, big |-> bigBoothQuota]]
                /\ nextExhibition' = nextExhibition + 1
                /\ req' = [req EXCEPT ![p] =
                     Reply([r EXCEPT !.id = nextExhibition], 201, "")]
    /\ UNCHANGED <<bookings, nextBooking, now>>

\* findByIdAndUpdate(id, req.body, {new: true, runValidators: true}): the
\* fields the payload carries are validated and set
ApplyBody(stored, body) ==
    [stored EXCEPT
       !.startDate = IF Given(body.startDate) THEN ValueOf(body.startDate) ELSE @,
       !.smallBoothQuota = IF Given(body.smallBoothQuota)
                           THEN ValueOf(body.smallBoothQuota) ELSE @,
       !.bigBoothQuota = IF Given(body.bigBoothQuota)
                         THEN ValueOf(body.bigBoothQuota) ELSE @]

\* an update that runs no validators
RunValidators_Mutant(updated) == TRUE

RunValidators(updated) == ExhibitionValid(updated)

\* updateExhibition: the start date check when the payload carries one, then
\* findByIdAndUpdate.  initialQuota follows an admin's edit of a counter, so
\* that it keeps meaning "what the bookings were taken from".
updateExhibition(p, id, body) ==
    /\ Quiet(p)
    /\ Received
    /\ LET r == [Arrive("updateExhibition", "root", id, 0, "", 0)
                   EXCEPT !.startDate = body.startDate]
           stored == exhibitions[id]
           updated == ApplyBody(stored, body)
       IN  IF Given(body.startDate) /\ IsBeforeDay(ValueOf(body.startDate), now)
           THEN /\ req' = [req EXCEPT ![p] =
                     Reply(r, 400, "Start date cannot be earlier than current date")]
                /\ UNCHANGED <<exhibitions, initialQuota>>
           ELSE IF ~RunValidators(updated)
           THEN /\ req' = [req EXCEPT ![p] = Reply(r, 0, "unhandled rejection")]
                /\ UNCHANGED <<exhibitions, initialQuota>>
           ELSE IF ~stored.exists
           THEN /\ req' = [req EXCEPT ![p] = Reply(r, 404, "Exhibition not found")]
                /\ UNCHANGED <<exhibitions, initialQuota>>
           ELSE /\ exhibitions' = [exhibitions EXCEPT ![id] = updated]
                /\ initialQuota' = [initialQuota EXCEPT ![id] =
                     [small |-> @.small + updated.smallBoothQuota
                                        - stored.smallBoothQuota,
                      big |-> @.big + updated.bigBoothQuota - stored.bigBoothQuota]]
                /\ req' = [req EXCEPT ![p] = Reply(r, 200, "")]
    /\ UNCHANGED <<bookings, nextExhibition, nextBooking, now>>

\* a delete that also removes the bookings of the exhibition
deleteExhibition_Mutant(p, id) ==
    /\ Quiet(p)
    /\ Received
    /\ LET r == Arrive("deleteExhibition", "root", id, 0, "", 0)
       IN  IF ~exhibitions[id].exists
           THEN /\ req' = [req EXCEPT ![p] = Reply(r, 404, "Exhibition not found")]
                /\ UNCHANGED <<exhibitions, bookings>>
           ELSE /\ exhibitions' = [exhibitions EXCEPT ![id] = NoExhibition]
                /\ bookings' = [b \in BookingIds |->
                                  IF bookings[b].exists /\ bookings[b].exhibition = id
                                  THEN NoBooking ELSE bookings[b]]
                /\ req' = [req EXCEPT ![p] = Reply(r, 200, "Exhibition deleted")]
    /\ UNCHANGED <<nextExhibition, nextBooking, now, initialQuota>>

\* deleteExhibition: findByIdAndDelete; the bookings are not touched
deleteExhibition(p, id) ==
    /\ Quiet(p)
    /\ Received
    /\ LET r == Arrive("deleteExhibition", "root", id, 0, "", 0)
       IN  IF ~exhibitions[id].exists
           THEN /\ req' = [req EXCEPT ![p] = Reply(r, 404, "Exhibition not found")]
                /\ UNCHANGED exhibitions
           ELSE /\ exhibitions' = [exhibitions EXCEPT ![id] = NoExhibition]
                /\ req' = [req EXCEPT ![p] = Reply(r, 200, "Exhibition deleted")]
    /\ UNCHANGED <<bookings, nextExhibition, nextBooking, now, initialQuota>>

\* the response has been sent: the slot takes the next request
Finish(p) ==
    /\ Done(p)
    /\ UNCHANGED served
    /\ req' = [req EXCEPT ![p] = IdleReq]
    /\ NoStoreChange

\* the clock reaches the next instant
AdvanceClock ==
    /\ now + 1 \in ClockInstants
    /\ now' = now + 1
    /\ UNCHANGED <<exhibitions, bookings, nextExhibition, nextBooking,
                   initialQuota, served, req>>

-----------------------------------------------------------------------------
(* The specifications *)

\* a request arrives at slot p, its inputs drawn from the sets of `in`
Arrival(p, in) ==
    \/ \E u \in in.creators, bu \in in.bodyUsers, e \in ExhibitionIds,
          t \in in.boothTypes, a \in in.amounts :
          createBooking_findById(p, u, bu, e, t, a)
    \/ \E u \in in.creators : createBooking_authorize(p, u)
    \/ \E u \in in.principals, id \in BookingIds, e \in in.bodyExhibitions,
          t \in in.boothTypes, a \in in.amounts :
          updateBooking_findOne(p, u, id, e, t, a)
    \/ \E u \in in.principals : getBookings(p, u)
    \/ \E u \in in.principals, id \in BookingIds : getBooking(p, u, id)
    \/ \E u \in in.principals, id \in BookingIds : deleteBooking_findOne(p, u, id)
    \/ \E d \in in.startDates, s \in in.quotas, b \in in.quotas :
          createExhibition(p, d, s, b)
    \/ \E id \in ExhibitionIds, body \in in.bodies : updateExhibition(p, id, body)
    \/ \E id \in ExhibitionIds : deleteExhibition(p, id)

\* the request at slot p runs to its next await
Step(p) ==
    \/ createBooking_aggregateBooked(p)
    \/ createBooking_aggregateUser(p)
    \/ createBooking_preSave(p)
    \/ createBooking_create(p)
    \/ createBooking_save(p)
    \/ createBooking_populate(p)
    \/ deleteBooking_findById(p)
    \/ deleteBooking_save(p)
    \/ deleteBooking_deleteOne(p)
    \/ updateBooking_findById(p)
    \/ updateBooking_save(p)
    \/ updateBooking_preSave(p)
    \/ updateBooking_update(p)
    \/ updateBooking_populate(p)
    \/ Finish(p)

\* the store call the request at slot p awaits throws: the handler's catch
\* answers 500 (the error is neither a duplicate key nor the hook's)
Throw(p) ==
    /\ req[p].pc \notin {"idle", "done"}
    /\ UNCHANGED served
    /\ req' = [req EXCEPT ![p] = Reply(req[p], 500, "Server Error")]
    /\ NoStoreChange

\* the inputs of Spec
Inputs ==
    [creators |-> Users, bodyUsers |-> {"", "bob"}, principals |-> Users,
     boothTypes |-> BoothTypeInputs, amounts |-> AmountInputs,
     bodyExhibitions |-> {0, MaxExhibitions},
     startDates |-> {0}, quotas |-> QuotaInputs,
     bodies |-> ExhibitionBodies({0}, QuotaInputs)]

\* the inputs of SpecFail
InputsFail ==
    [creators |-> {"alice", "root"}, bodyUsers |-> {""},
     principals |-> {"alice", "root"},
     boothTypes |-> BoothTypes, amounts |-> 1..MaxAmount,
     bodyExhibitions |-> {0},
     startDates |-> {0}, quotas |-> {MaxAmount},
     bodies |-> ExhibitionBodies({}, {})]

\* the inputs of SpecConc
InputsConc ==
    [creators |-> {"alice", "root"}, bodyUsers |-> {""},
     principals |-> {"alice"},
     boothTypes |-> BoothTypes, amounts |-> {MaxAmount - 1, MaxAmount},
     bodyExhibitions |-> {0},
     startDates |-> {0}, quotas |-> {MaxAmount},
     bodies |-> ExhibitionBodies({}, {})]

\* one request at a time
Next == Arrival(1, Inputs) \/ Step(1)

Spec == Init /\ [][Next]_vars

\* two requests at a time, interleaved at every await
NextConc == \E p \in Procs : Arrival(p, InputsConc) \/ Step(p)

SpecConc == Init /\ [][NextConc]_vars

\* one request at a time, over a store whose calls may fail
NextFail == Arrival(1, InputsFail) \/ Step(1) \/ Throw(1)

SpecFail == Init /\ [][NextFail]_vars

\* the inputs of SpecClock
InputsClock ==
    [creators |-> {"alice", "root"}, bodyUsers |-> {""},
     principals |-> {"alice", "root"},
     boothTypes |-> BoothTypes \cup {"huge"},
     amounts |-> {MaxAmount - 1, MaxAmount},
     bodyExhibitions |-> {0},
     startDates |-> Instants, quotas |-> {MaxAmount},
     bodies |-> ExhibitionBodies(Instants, {})]

\* one request at a time, while the clock runs
NextClock == Arrival(1, InputsClock) \/ Step(1) \/ AdvanceClock

SpecClock == Init /\ [][NextClock]_vars

-----------------------------------------------------------------------------
(* Vocabulary of the properties *)

BookingOps == {"createBooking", "updateBooking", "deleteBooking"}

\* the collections as the request at slot p found them
PreExhibitions(p) == req[p].pre[1]
PreBookings(p) == req[p].pre[2]

\* the request at slot p left both collections as it found them
Untouched(p) == db = req[p].pre

\* no request is between two of its steps
AllQuiet == \A p \in Procs : req[p].pc \in {"idle", "done"}

InitialQuota(e, t) == IF t = "small" THEN initialQuota[e].small ELSE initialQuota[e].big

\* response kinds
NotFound(p) == req[p].status = 404
BadRequest(p) == req[p].status = 400
Forbidden(p) == req[p].status \in {401, 403}
Internal(p) == req[p].status = 500
Succeeded(p) == req[p].status \in {200, 201}

\* the calendar day of an instant
Day(t) == t \div TicksPerDay

StartedMessage == "Cannot book for an exhibition that has already started"
DateMessage == "Start date cannot be earlier than current date"
QuotaMessage == "Not enough booths available"
CapMessage == "Total number of booths per exhibition cannot exceed 6"
HookMessage == "Total number of booths cannot exceed 6 per exhibition"

-----------------------------------------------------------------------------
(* C1: conservation of inventory.  Whenever no request is in progress, for *)
(* every existing exhibition and each booth type, the quota counter plus   *)
(* the amounts of the existing bookings of that type on it equals the      *)
(* quota it was published with (admin edits of the counter set aside).     *)
C1_Conservation ==
    AllQuiet =>
        \A e \in ExhibitionIds, t \in BoothTypes :
            exhibitions[e].exists =>
                Quota(exhibitions[e], t) + TotalBooked(bookings, e, t)
                    = InitialQuota(e, t)

(* C2: per-user cap.  In every state, for every user and exhibition, the   *)
(* amounts of that user's bookings on that exhibition, small and big       *)
(* together, sum to at most 6.                                             *)
C2_PerUserCap ==
    \A u \in Users, e \in ExhibitionIds :
        UserTotalBooths(bookings, u, e) <= MaxBoothsPerUser

\* an admin's update of a member's booking was refused by the hook while the
\* member stands exactly at the cap
C2_Witness ==
    \E p \in Procs :
        /\ Done(p) /\ req[p].op = "updateBooking" /\ Role(req[p].user) = "admin"
        /\ BadRequest(p) /\ req[p].message = HookMessage
        /\ UserTotalBooths(bookings, req[p].old.user, req[p].old.exhibition)
               = MaxBoothsPerUser

(* C4: validation failures are side-effect free.  A booking request that   *)
(* ends NotFound, Forbidden or BadRequest leaves every booking and every   *)
(* exhibition as it found them.                                            *)
C4_RejectedUntouched ==
    \A p \in Procs :
        (Done(p) /\ req[p].op \in BookingOps
                 /\ (NotFound(p) \/ Forbidden(p) \/ BadRequest(p)))
            => Untouched(p)

(* C3: no over-booking under concurrency.  Two createBooking requests for *)
(* the same exhibition and booth type that overlapped (each arrived before *)
(* the other's booking was inserted) and read the same quota counter do    *)
(* not both succeed unless both amounts fit in that counter, and the       *)
(* counter afterwards is lower by both amounts.                            *)
C3_NoOverBooking ==
    \A p, q \in Procs :
        (/\ p # q
         /\ Done(p) /\ Done(q)
         /\ req[p].op = "createBooking" /\ req[q].op = "createBooking"
         /\ req[p].status = 201 /\ req[q].status = 201
         /\ req[p].exhibitionId = req[q].exhibitionId
         /\ req[p].boothType = req[q].boothType
         /\ bookings[req[p].bookingId].exists /\ bookings[req[q].bookingId].exists
         /\ ~PreBookings(q)[req[p].bookingId].exists
         /\ ~PreBookings(p)[req[q].bookingId].exists
         /\ Quota(PreExhibitions(p)[req[p].exhibitionId], req[p].boothType)
              = Quota(PreExhibitions(q)[req[q].exhibitionId], req[q].boothType))
        => LET e == req[p].exhibitionId
               t == req[p].boothType
               read == Quota(PreExhibitions(p)[e], t)
           IN  /\ req[p].amount + req[q].amount <= read
               /\ exhibitions[e].exists
                    => Quota(exhibitions[e], t)
                         = read - req[p].amount - req[q].amount

(* C5: createBooking with an amount above the live quota counter of the    *)
(* requested booth type is answered BadRequest and changes nothing; and    *)
(* the quota message is given exactly when the amount exceeds that counter *)
(* (for a request that passed the earlier checks), whatever the bookings   *)
(* of that type sum to.                                                    *)
C5_QuotaRejection ==
    \A p \in Procs :
        (Done(p) /\ req[p].op = "createBooking"
                 /\ Role(req[p].user) = "member") =>
            LET e == req[p].bodyExhibition
                t == req[p].boothType
                exhibition == PreExhibitions(p)[e]
                reached == /\ exhibition.exists
                           /\ t \in BoothTypes
                           /\ ~IsBeforeDay(exhibition.startDate, now)
            IN  /\ (exhibition.exists /\ t \in BoothTypes
                        /\ req[p].amount > Quota(exhibition, t))
                      => (BadRequest(p) /\ Untouched(p))
                /\ (req[p].message = QuotaMessage)
                      <=> (reached /\ req[p].amount > Quota(exhibition, t))

\* a request that the published quota would have held is refused because the
\* live counter, lowered by earlier bookings, is below its amount
C5_Witness ==
    \E p \in Procs :
        /\ Done(p) /\ req[p].op = "createBooking"
        /\ BadRequest(p) /\ req[p].message = QuotaMessage
        /\ req[p].totalBooked > 0
        /\ req[p].amount <= InitialQuota(req[p].exhibitionId, req[p].boothType)
        /\ Untouched(p)

(* C6: the cap on createBooking.  A createBooking request that passed the  *)
(* earlier checks (exhibition found, booth type valid, start date not      *)
(* passed, amount at least 1 and within the quota) is answered BadRequest  *)
(* with the cap message exactly when the user's total on the exhibition,   *)
(* small and big together, plus the amount exceeds 6; otherwise it         *)
(* succeeds.                                                               *)
C6_CapOnCreate ==
    \A p \in Procs :
        (Done(p) /\ req[p].op = "createBooking"
                 /\ Role(req[p].user) = "member") =>
            LET e == req[p].bodyExhibition
                t == req[p].boothType
                exhibition == PreExhibitions(p)[e]
                held == UserTotalBooths(PreBookings(p), req[p].user, e)
            IN  (/\ exhibition.exists
                 /\ t \in BoothTypes
                 /\ ~IsBeforeDay(exhibition.startDate, now)
                 /\ req[p].amount >= MinAmount
                 /\ req[p].amount <= Quota(exhibition, t))
                => IF held + req[p].amount > MaxBoothsPerUser
                   THEN BadRequest(p) /\ req[p].message = CapMessage
                   ELSE req[p].status = 201

\* a big-booth request within the big quota is refused by the cap because of
\* the small booths the user holds
C6_Witness ==
    \E p \in Procs :
        /\ Done(p) /\ req[p].op = "createBooking"
        /\ req[p].boothType = "big"
        /\ req[p].amount <= Quota(PreExhibitions(p)[req[p].bodyExhibition], "big")
        /\ BadRequest(p) /\ req[p].message = CapMessage
        /\ \A b \in BookingIds :
              (PreBookings(p)[b].exists /\ PreBookings(p)[b].user = req[p].user)
                  => PreBookings(p)[b].boothType = "small"

(* C7: a successful deleteBooking of a booking of type t and amount a on   *)
(* an existing exhibition raises that exhibition's counter for t by        *)
(* exactly a, leaves its other counter and every other exhibition as they  *)
(* were, and removes exactly that booking.                                 *)
C7_DeleteRestores ==
    \A p \in Procs :
        (/\ Done(p) /\ req[p].op = "deleteBooking" /\ req[p].status = 200
         /\ PreExhibitions(p)[PreBookings(p)[req[p].id].exhibition].exists)
        => LET booking == PreBookings(p)[req[p].id]
               e == booking.exhibition
           IN  /\ booking.exists
               /\ exhibitions = [PreExhibitions(p) EXCEPT ![e] =
                     AddQuota(@, booking.boothType, booking.amount)]
               /\ bookings = [PreBookings(p) EXCEPT ![req[p].id] = NoBooking]

\* a big booking was deleted while another exhibition exists
C7_Witness ==
    \E p \in Procs :
        /\ Done(p) /\ req[p].op = "deleteBooking" /\ req[p].status = 200
        /\ PreBookings(p)[req[p].id].boothType = "big"
        /\ PreExhibitions(p)[PreBookings(p)[req[p].id].exhibition].exists
        /\ \E e \in ExhibitionIds :
              e # PreBookings(p)[req[p].id].exhibition /\ exhibitions[e].exists

(* C8: updateBooking is checked against the quota with the old             *)
(* reservation restored.  For an update that found its booking and its     *)
(* exhibition, with old values (oldType, oldAmount) and new values         *)
(* (newType, newAmount): it is answered BadRequest with the quota message  *)
(* exactly when newAmount exceeds quota[newType], plus oldAmount if        *)
(* newType = oldType, and then nothing stored has changed; when it         *)
(* succeeds, quota[oldType] has gained oldAmount, quota[newType] has lost  *)
(* newAmount, and the booking carries the new values.                      *)
C8_UpdateQuota ==
    \A p \in Procs :
        (/\ Done(p) /\ req[p].op = "updateBooking"
         /\ FindOne(PreBookings(p), req[p].id, req[p].user).exists
         /\ req[p].boothType \in BoothTypes
         /\ PreExhibitions(p)[PreBookings(p)[req[p].id].exhibition].exists)
        => LET old == PreBookings(p)[req[p].id]
               e == old.exhibition
               newType == req[p].boothType
               newAmount == IF req[p].amount = 0 THEN old.amount ELSE req[p].amount
               available == Quota(PreExhibitions(p)[e], newType)
                              + (IF newType = old.boothType THEN old.amount ELSE 0)
           IN  /\ (BadRequest(p) /\ req[p].message = QuotaMessage)
                     <=> newAmount > available
               /\ newAmount > available => Untouched(p)
               /\ req[p].status = 200 =>
                    /\ exhibitions = [PreExhibitions(p) EXCEPT ![e] =
                          AddQuota(AddQuota(@, old.boothType, old.amount),
                                   newType, 0 - newAmount)]
                    /\ bookings = [PreBookings(p) EXCEPT ![req[p].id] =
                          [old EXCEPT !.boothType = newType, !.amount = newAmount]]

\* a small booking became a larger big booking
C8_Witness ==
    \E p \in Procs :
        /\ Done(p) /\ req[p].op = "updateBooking" /\ req[p].status = 200
        /\ req[p].old.boothType = "small" /\ req[p].boothType = "big"
        /\ req[p].amount > req[p].old.amount
        /\ bookings[req[p].id].boothType = "big"
        /\ bookings[req[p].id].amount = req[p].amount

(* C9: atomicity under store failure.  A booking request that ends         *)
(* Internal leaves every booking and every exhibition as it found them.    *)
C9_FailureAtomic ==
    \A p \in Procs :
        (Done(p) /\ req[p].op \in BookingOps /\ Internal(p)) => Untouched(p)

C11_MalformedAmount ==
    \A p \in Procs :
        (/\ Done(p) /\ req[p].amount < MinAmount
         /\ req[p].boothType \in BoothTypes
         /\ \/ /\ req[p].op = "createBooking"
               /\ PreExhibitions(p)[req[p].bodyExhibition].exists
            \/ /\ req[p].op = "updateBooking"
               /\ FindOne(PreBookings(p), req[p].id, req[p].user).exists
               /\ PreExhibitions(p)[PreBookings(p)[req[p].id].exhibition].exists)
        => (BadRequest(p) /\ Untouched(p))

\* the request at slot p addresses an existing booking of another member /
\* is an admin's request on an existing booking of a member
ByOtherMember(p) ==
    /\ PreBookings(p)[req[p].id].exists
    /\ Role(req[p].user) = "member"
    /\ PreBookings(p)[req[p].id].user # req[p].user

ByAdmin(p) ==
    /\ PreBookings(p)[req[p].id].exists
    /\ Role(req[p].user) = "admin"
    /\ Role(PreBookings(p)[req[p].id].user) = "member"

BookingNotFound(p) == NotFound(p) /\ req[p].message = "Booking not found"

(* C12: access to another member's booking.  On an existing booking owned  *)
(* by member A, a request by a different member B is answered Forbidden    *)
(* for getBooking and NotFound for updateBooking and deleteBooking, and    *)
(* changes nothing; an admin's getBooking and deleteBooking succeed and an *)
(* admin's updateBooking is not refused on ownership grounds.              *)
C12_Ownership ==
    \A p \in Procs :
        Done(p) =>
            /\ (req[p].op = "getBooking" /\ ByOtherMember(p))
                  => (Forbidden(p) /\ Untouched(p))
            /\ (req[p].op \in {"updateBooking", "deleteBooking"} /\ ByOtherMember(p))
                  => (BookingNotFound(p) /\ Untouched(p))
            /\ (req[p].op \in {"getBooking", "deleteBooking"} /\ ByAdmin(p))
                  => req[p].status = 200
            /\ (req[p].op = "updateBooking" /\ ByAdmin(p))
                  => (~Forbidden(p) /\ ~BookingNotFound(p))

\* bob's deleteBooking of alice's booking has been answered NotFound
C12_Witness ==
    \E p \in Procs :
        /\ Done(p) /\ req[p].op = "deleteBooking" /\ ByOtherMember(p)
        /\ NotFound(p) /\ bookings[req[p].id].exists

\* C12 as stated: the other member's request is answered Forbidden for all
\* three operations and changes nothing, the admin's request succeeds
C12_AsStated ==
    \A p \in Procs :
        Done(p) =>
            /\ (req[p].op \in {"getBooking", "updateBooking", "deleteBooking"}
                    /\ ByOtherMember(p))
                  => (Forbidden(p) /\ Untouched(p))
            /\ (req[p].op \in {"getBooking", "deleteBooking"} /\ ByAdmin(p))
                  => req[p].status = 200

(* C13: updateBooking by a member on a booking that does not exist, or     *)
(* that exists but belongs to another user, gets one and the same answer,  *)
(* NotFound with the same message and no data, and changes nothing;        *)
(* getBooking is answered NotFound when the booking does not exist and     *)
(* Forbidden when it exists and the member is not its owner.               *)
C13_NotFoundOrForbidden ==
    \A p \in Procs :
        (Done(p) /\ Role(req[p].user) = "member") =>
            LET booking == PreBookings(p)[req[p].id]
                missing == ~booking.exists
                foreign == booking.exists /\ booking.user # req[p].user
            IN  /\ (req[p].op = "updateBooking" /\ (missing \/ foreign))
                      => /\ req[p].status = 404
                         /\ req[p].message = "Booking not found"
                         /\ req[p].data = {}
                         /\ Untouched(p)
                /\ (req[p].op = "getBooking" /\ missing) => NotFound(p)
                /\ (req[p].op = "getBooking" /\ foreign) => Forbidden(p)

\* a member's updateBooking of a booking that does not exist was answered
\* while a booking of another member exists
C13_Witness ==
    \E p \in Procs, b \in BookingIds :
        /\ Done(p) /\ req[p].op = "updateBooking" /\ Role(req[p].user) = "member"
        /\ ~PreBookings(p)[req[p].id].exists
        /\ bookings[b].exists /\ bookings[b].user # req[p].user
        /\ NotFound(p)

\* the bookings that exist / that exist and belong to u
ExistingBookings == {b \in BookingIds : bookings[b].exists}
BookingsOf(u) == {b \in BookingIds : bookings[b].exists /\ bookings[b].user = u}

(* C14: listBookings.  The answer to getBookings holds exactly the         *)
(* existing bookings when the principal is an admin, and exactly the       *)
(* existing bookings owned by the principal when it is a member.           *)
C14_ListBookings ==
    \A p \in Procs :
        (Done(p) /\ req[p].op = "getBookings") =>
            /\ req[p].status = 200
            /\ Role(req[p].user) = "admin" => req[p].data = ExistingBookings
            /\ Role(req[p].user) = "member" => req[p].data = BookingsOf(req[p].user)

\* a member was listed its own booking while another member's booking exists
C14_Witness ==
    \E p \in Procs :
        /\ Done(p) /\ req[p].op = "getBookings" /\ Role(req[p].user) = "member"
        /\ req[p].data # {}
        /\ req[p].data # ExistingBookings

(* C15: the owner and the exhibition of a booking never change.  No step   *)
(* changes the user or the exhibition field of a booking that exists       *)
(* before and after it (booking _ids are not reused), and an answered      *)
(* updateBooking has changed nothing of any booking but the boothType and  *)
(* the amount of the booking it addressed.                                 *)
C15_Immutable ==
    /\ [][\A b \in BookingIds :
            (bookings[b].exists /\ bookings'[b].exists)
                => /\ bookings'[b].user = bookings[b].user
                   /\ bookings'[b].exhibition = bookings[b].exhibition]_vars
    /\ [](\A p \in Procs :
            (Done(p) /\ req[p].op = "updateBooking") =>
                \A b \in BookingIds :
                    \/ bookings[b] = PreBookings(p)[b]
                    \/ /\ b = req[p].id
                       /\ bookings[b] = [PreBookings(p)[b] EXCEPT
                              !.boothType = bookings[b].boothType,
                              !.amount = bookings[b].amount])

\* an admin's update whose payload names another exhibition has succeeded and
\* changed both the boothType and the amount of a member's booking
C15_Witness ==
    \E p \in Procs :
        /\ Done(p) /\ req[p].op = "updateBooking" /\ req[p].status = 200
        /\ Role(req[p].user) = "admin"
        /\ req[p].bodyExhibition # 0
        /\ req[p].bodyExhibition # PreBookings(p)[req[p].id].exhibition
        /\ bookings[req[p].id].boothType # PreBookings(p)[req[p].id].boothType
        /\ bookings[req[p].id].amount # PreBookings(p)[req[p].id].amount
        /\ bookings[req[p].id].exhibition = PreBookings(p)[req[p].id].exhibition

(* C16: createBooking and the start date.  A createBooking request for an  *)
(* existing exhibition with a valid booth type is answered BadRequest with *)
(* the "already started" message, and changes nothing, when the calendar   *)
(* day of the exhibition's startDate is strictly before the day of the     *)
(* clock; it is never answered so when the startDate falls on the clock's  *)
(* day or a later one, whatever the time of day.                           *)
C16_StartDate ==
    \A p \in Procs :
        (/\ Done(p) /\ req[p].op = "createBooking"
         /\ req[p].boothType \in BoothTypes
         /\ PreExhibitions(p)[req[p].bodyExhibition].exists)
        => LET startDate == PreExhibitions(p)[req[p].bodyExhibition].startDate
           IN  IF Day(startDate) < Day(req[p].clock)
               THEN /\ BadRequest(p) /\ req[p].message = StartedMessage
                    /\ Untouched(p)
               ELSE req[p].message # StartedMessage

\* a booking for an exhibition that started the day before was refused
C16_Witness ==
    \E p \in Procs :
        /\ Done(p) /\ req[p].op = "createBooking"
        /\ BadRequest(p) /\ req[p].message = StartedMessage
        /\ Day(PreExhibitions(p)[req[p].bodyExhibition].startDate) + 1
              = Day(req[p].clock)

(* C17: the start date of an exhibition.  createExhibition, and            *)
(* updateExhibition when its payload carries a startDate, are answered     *)
(* BadRequest and create or change no exhibition when the calendar day of  *)
(* the given startDate is before the clock's day (the day before, in       *)
(* particular); they are not refused with the date message when it is the  *)
(* clock's day or a later one.                                             *)
C17_ExhibitionStartDate ==
    \A p \in Procs :
        (/\ Done(p) /\ req[p].op \in {"createExhibition", "updateExhibition"}
         /\ req[p].startDate # {})
        => \A startDate \in req[p].startDate :
              IF Day(startDate) < Day(req[p].clock)
              THEN /\ BadRequest(p) /\ req[p].message = DateMessage
                   /\ Untouched(p)
              ELSE req[p].message # DateMessage

\* an update that moves an exhibition's start to the day before was refused
C17_Witness ==
    \E p \in Procs :
        /\ Done(p) /\ req[p].op = "updateExhibition"
        /\ exhibitions[req[p].id].exists
        /\ \E startDate \in req[p].startDate :
              Day(startDate) + 1 = Day(req[p].clock)
        /\ BadRequest(p) /\ Untouched(p)

(* C18: quota counters change only through bookings.  An answered          *)
(* updateExhibition, whatever its payload, leaves smallBoothQuota and      *)
(* bigBoothQuota of every existing exhibition as they were.                *)
C18_QuotaFrame ==
    \A p \in Procs :
        (Done(p) /\ req[p].op = "updateExhibition") =>
            \A e \in ExhibitionIds, t \in BoothTypes :
                (PreExhibitions(p)[e].exists /\ exhibitions[e].exists)
                    => Quota(exhibitions[e], t) = Quota(PreExhibitions(p)[e], t)

(* C19: updateBooking with one of the two fields.  For an update that      *)
(* found its booking and its exhibition: when the payload carries only an  *)
(* amount (at least 1) that fits the quota and the cap, the request        *)
(* succeeds, the booking keeps its boothType and takes the amount; when it *)
(* carries only a boothType whose quota holds the booking's amount, the    *)
(* request succeeds, the booking takes the boothType and keeps its amount. *)
C19_PartialUpdate ==
    \A p \in Procs :
        (/\ Done(p) /\ req[p].op = "updateBooking"
         /\ FindOne(PreBookings(p), req[p].id, req[p].user).exists
         /\ PreExhibitions(p)[PreBookings(p)[req[p].id].exhibition].exists)
        => LET old == PreBookings(p)[req[p].id]
               exhibition == PreExhibitions(p)[old.exhibition]
               others == SumAmount(PreBookings(p), {b \in BookingIds \ {req[p].id} :
                            /\ PreBookings(p)[b].exists
                            /\ PreBookings(p)[b].user = old.user
                            /\ PreBookings(p)[b].exhibition = old.exhibition})
           IN  /\ (/\ req[p].boothType = "" /\ req[p].amount >= MinAmount
                   /\ req[p].amount <= Quota(exhibition, old.boothType) + old.amount
                   /\ others + req[p].amount <= MaxBoothsPerUser)
                  => /\ req[p].status = 200
                     /\ bookings[req[p].id] = [old EXCEPT !.amount = req[p].amount]
               /\ (/\ req[p].boothType \in BoothTypes /\ req[p].amount = 0
                   /\ old.amount <= Quota(exhibition, req[p].boothType)
                        + (IF req[p].boothType = old.boothType THEN old.amount ELSE 0))
                  => /\ req[p].status = 200
                     /\ bookings[req[p].id] = [old EXCEPT !.boothType = req[p].boothType]

(* C20: the persistence-level guard.  A save of a booking, new or          *)
(* modified, goes on to its write only if its amount plus the amounts of   *)
(* the other bookings of the same user and exhibition is at most 6; an     *)
(* update refused by the guard, for which the handler made no cap check of *)
(* its own, leaves the booking store as it was.                            *)
C20_PersistenceGuard ==
    \A p \in Procs :
        LET r == req[p]
            self == IF r.op = "createBooking" THEN nextBooking ELSE r.bookingId
            others == SumAmount(bookings, {b \in BookingIds \ {self} :
                         /\ bookings[b].exists
                         /\ bookings[b].user = r.booking.user
                         /\ bookings[b].exhibition = r.booking.exhibition})
        IN  /\ r.pc \in {"createBooking_create", "updateBooking_update"}
                  => others + r.booking.amount <= MaxBoothsPerUser
            /\ (Done(p) /\ r.op = "updateBooking" /\ r.message = HookMessage)
                  => /\ others + r.booking.amount > MaxBoothsPerUser
                     /\ bookings = PreBookings(p)

\* a member's own update was refused by the guard and the bookings stand as
\* they were
C20_Witness ==
    \E p \in Procs :
        /\ Done(p) /\ req[p].op = "updateBooking"
        /\ Role(req[p].user) = "member"
        /\ req[p].message = HookMessage
        /\ bookings = PreBookings(p)
        /\ req[p].booking.amount # bookings[req[p].id].amount

(* C21: deleteBooking of a booking whose exhibition is gone.  A            *)
(* deleteBooking by the owner or an admin of a booking whose exhibition no *)
(* longer exists succeeds: the booking is removed, every other booking and *)
(* every exhibition stay as they were.                                     *)
C21_DeleteOrphan ==
    \A p \in Procs :
        (/\ Done(p) /\ req[p].op = "deleteBooking"
         /\ FindOne(PreBookings(p), req[p].id, req[p].user).exists
         /\ ~PreExhibitions(p)[PreBookings(p)[req[p].id].exhibition].exists)
        => /\ req[p].status = 200
           /\ exhibitions = PreExhibitions(p)
           /\ bookings = [PreBookings(p) EXCEPT ![req[p].id] = NoBooking]

\* the owner has deleted a booking of a deleted exhibition
C21_Witness ==
    \E p \in Procs :
        /\ Done(p) /\ req[p].op = "deleteBooking" /\ req[p].status = 200
        /\ Role(req[p].user) = "member"
        /\ PreBookings(p)[req[p].id].exists
        /\ ~PreExhibitions(p)[PreBookings(p)[req[p].id].exhibition].exists
        /\ ~bookings[req[p].id].exists

(* C23: createBooking is for members.  A createBooking request by an admin *)
(* is rejected as not authorized, creates no booking and changes no quota: *)
(* it leaves every booking and exhibition as it found them, and no booking *)
(* is ever owned by an admin.                                              *)
C23_MembersOnly ==
    /\ \A p \in Procs :
          (req[p].op = "createBooking" /\ Role(req[p].user) = "admin")
             => /\ Done(p) /\ Forbidden(p)
                /\ Untouched(p)
                /\ req[p].bookingId = 0
    /\ \A b \in ExistingBookings : Role(bookings[b].user) = "member"

\* an admin's createBooking was turned away while an exhibition with free
\* booths stood open
C23_Witness ==
    \E p \in Procs, e \in ExhibitionIds :
        /\ Done(p) /\ req[p].op = "createBooking" /\ Role(req[p].user) = "admin"
        /\ req[p].status = 403
        /\ exhibitions[e].exists
        /\ Quota(exhibitions[e], "small") > 0
        /\ ExistingBookings = {}

\* the exhibition a booking request works on: the one its payload names for
\* createBooking, the one of the booking it found for the other two (0: none)
TargetOf(r) ==
    IF r.op = "createBooking" THEN r.bodyExhibition
    ELSE IF r.old.exists THEN r.old.exhibition
    ELSE 0

\* the bookings on exhibition e in a collection
BookingsOn(bs, e) == {b \in BookingIds : bs[b].exists /\ bs[b].exhibition = e}

(* C22: isolation between exhibitions.  Every step of a booking request    *)
(* that works on exhibition E1 leaves the document (both quota counters)   *)
(* of every other exhibition E2 as it was, leaves every booking on E2 as   *)
(* it was and adds no booking to E2, also when requests on E1 and on E2    *)
(* run interleaved.                                                        *)
C22_Isolation ==
    [][\A p \in Procs :
         (req'[p] # req[p] /\ req'[p].op \in BookingOps) =>
            \A e2 \in ExhibitionIds \ {TargetOf(req'[p])} :
               /\ exhibitions'[e2] = exhibitions[e2]
               /\ BookingsOn(bookings', e2) = BookingsOn(bookings, e2)
               /\ \A b \in BookingsOn(bookings, e2) : bookings'[b] = bookings[b]
      ]_vars

\* two overlapping createBooking requests on two different exhibitions have
\* both succeeded, each lowering the counter of its own exhibition only
C22_Witness ==
    \E p, q \in Procs :
        /\ p # q /\ Done(p) /\ Done(q)
        /\ req[p].op = "createBooking" /\ req[q].op = "createBooking"
        /\ req[p].status = 201 /\ req[q].status = 201
        /\ req[p].exhibitionId # req[q].exhibitionId
        /\ ~PreBookings(q)[req[p].bookingId].exists
        /\ ~PreBookings(p)[req[q].bookingId].exists
        /\ \A r \in {p, q} :
              Quota(exhibitions[req[r].exhibitionId], req[r].boothType)
                 = MaxAmount - req[r].amount

(* C24: the cap on updateBooking.  An updateBooking request that passes    *)
(* the earlier checks (booking found, booth type valid, exhibition found,  *)
(* a valid new amount within the restored quota) but whose new amount plus *)
(* the amounts of the owner's other bookings on the exhibition exceeds 6   *)
(* is refused by the persistence guard and answered BadRequest with the    *)
(* message naming the cap, not Internal.                                   *)
C24_CapOnUpdate ==
    \A p \in Procs :
        (Done(p) /\ req[p].op = "updateBooking"
                 /\ FindOne(PreBookings(p), req[p].id, req[p].user).exists
                 /\ req[p].boothType \in BoothTypes) =>
            LET old == PreBookings(p)[req[p].id]
                exhibition == PreExhibitions(p)[old.exhibition]
                newAmount == IF req[p].amount = 0 THEN old.amount ELSE req[p].amount
                freed == IF old.boothType = req[p].boothType THEN old.amount ELSE 0
                others == SumAmount(PreBookings(p), {b \in BookingIds \ {req[p].id} :
                             /\ PreBookings(p)[b].exists
                             /\ PreBookings(p)[b].user = old.user
                             /\ PreBookings(p)[b].exhibition = old.exhibition})
            IN  (/\ exhibition.exists
                 /\ newAmount >= MinAmount
                 /\ newAmount <= Quota(exhibition, req[p].boothType) + freed
                 /\ others + newAmount > MaxBoothsPerUser)
                => /\ BadRequest(p) /\ ~Internal(p)
                   /\ req[p].message = HookMessage

\* a raise of a small-booth booking that the small quota would hold was
\* answered 400 with the cap's message because of the big booths its owner
\* holds
C24_Witness ==
    \E p \in Procs :
        /\ Done(p) /\ req[p].op = "updateBooking"
        /\ req[p].status = 400 /\ req[p].message = HookMessage
        /\ req[p].old.boothType = "small" /\ req[p].boothType = "small"
        /\ req[p].amount > req[p].old.amount
        /\ req[p].amount <= Quota(PreExhibitions(p)[req[p].old.exhibition], "small")
                              + req[p].old.amount
        /\ \E b \in BookingIds : PreBookings(p)[b].exists
                                    /\ PreBookings(p)[b].boothType = "big"
                                    /\ PreBookings(p)[b].user = req[p].old.user

TypeMessage == "Booth type must be either small or big"
ExhibitionMessage == "Exhibition not found"

(* C25: the order of the checks of createBooking.  A member's createBooking *)
(* is answered by the first check that fails, in this order: the exhibition *)
(* is missing (NotFound), the booth type is invalid, the exhibition's start *)
(* day has passed, the amount is above the live quota counter, the user's   *)
(* total plus the amount exceeds 6 (each BadRequest with its message).  A   *)
(* missing exhibition with an invalid booth type gives NotFound; an amount  *)
(* above both the quota and the cap gives the quota message.  A request     *)
(* that fails none of the five gets none of these answers.                  *)
C25_CheckOrder ==
    \A p \in Procs :
        (Done(p) /\ req[p].op = "createBooking" /\ Role(req[p].user) = "member") =>
            LET e == req[p].bodyExhibition
                t == req[p].boothType
                exhibition == PreExhibitions(p)[e]
                held == SumAmount(PreBookings(p), {b \in BookingIds :
                            /\ PreBookings(p)[b].exists
                            /\ PreBookings(p)[b].user = req[p].user
                            /\ PreBookings(p)[b].exhibition = e})
                answer == <<req[p].status, req[p].message>>
            IN  IF ~exhibition.exists
                  THEN answer = <<404, ExhibitionMessage>>
                ELSE IF t \notin BoothTypes
                  THEN answer = <<400, TypeMessage>>
                ELSE IF Day(exhibition.startDate) < Day(req[p].clock)
                  THEN answer = <<400, StartedMessage>>
                ELSE IF req[p].amount > Quota(exhibition, t)
                  THEN answer = <<400, QuotaMessage>>
                ELSE IF held + req[p].amount > MaxBoothsPerUser
                  THEN answer = <<400, CapMessage>>
                ELSE req[p].message \notin {ExhibitionMessage, TypeMessage,
                                            StartedMessage, QuotaMessage, CapMessage}

\* a request whose amount is above the live quota and would also take its
\* user above the cap was answered with the quota message
C25_Witness ==
    \E p \in Procs :
        /\ Done(p) /\ req[p].op = "createBooking"
        /\ req[p].status = 400 /\ req[p].message = QuotaMessage
        /\ req[p].amount > Quota(PreExhibitions(p)[req[p].bodyExhibition],
                                 req[p].boothType)
        /\ UserTotalBooths(PreBookings(p), req[p].user, req[p].bodyExhibition)
              + req[p].amount > MaxBoothsPerUser

(* C26: the owner of a booking.  The booking stored by a createBooking     *)
(* request has the id of the authenticated principal as its user, whatever *)
(* user the request payload carries.                                       *)
C26_OwnerIsPrincipal ==
    \A p \in Procs :
        (req[p].op = "createBooking" /\ req[p].bookingId # 0
            /\ ~PreBookings(p)[req[p].bookingId].exists
            /\ bookings[req[p].bookingId].exists)
        => bookings[req[p].bookingId].user = req[p].user

\* alice's request carried bob as its user and the booking stored is alice's
C26_Witness ==
    \E p \in Procs :
        /\ Done(p) /\ req[p].op = "createBooking" /\ req[p].status = 201
        /\ req[p].user = "alice" /\ req[p].bodyUser = "bob"
        /\ bookings[req[p].bookingId].exists
        /\ bookings[req[p].bookingId].user = "alice"
        /\ BookingsOf("bob") = {}

\* the request at slot q arrived in the very state that the successful
\* createBooking at slot p produced from the state it had found
ImmediatelyAfterCreate(p, q) ==
    LET c == req[p]
    IN  /\ PreExhibitions(p)[c.bodyExhibition].exists
        /\ PreExhibitions(q) =
              [PreExhibitions(p) EXCEPT ![c.bodyExhibition] =
                  AddQuota(@, c.boothType, 0 - c.amount)]
        /\ PreBookings(q) =
              [PreBookings(p) EXCEPT ![c.bookingId] =
                  [exists |-> TRUE, user |-> c.user,
                   exhibition |-> c.bodyExhibition,
                   boothType |-> c.boothType, amount |-> c.amount]]

(* C27: create then delete is a round trip.  When a successful createBooking *)
(* is immediately followed by a successful deleteBooking of the booking it   *)
(* created, both quota counters of the exhibition, the set of bookings and   *)
(* the user's total on the exhibition are what they were before the create.  *)
C27_RoundTrip ==
    \A p, q \in Procs :
        (/\ p # q
         /\ Done(p) /\ req[p].op = "createBooking" /\ req[p].status = 201
         /\ Done(q) /\ req[q].op = "deleteBooking" /\ req[q].status = 200
         /\ req[q].id = req[p].bookingId
         /\ ImmediatelyAfterCreate(p, q))
        => LET e == req[p].bodyExhibition
           IN  /\ exhibitions[e].smallBoothQuota = PreExhibitions(p)[e].smallBoothQuota
               /\ exhibitions[e].bigBoothQuota = PreExhibitions(p)[e].bigBoothQuota
               /\ bookings = PreBookings(p)
               /\ UserTotalBooths(bookings, req[p].user, e)
                     = UserTotalBooths(PreBookings(p), req[p].user, e)

\* a booking was created and deleted right away, by a user who holds
\* another booking on the exhibition
C27_Witness ==
    \E p, q \in Procs :
        /\ p # q
        /\ Done(p) /\ req[p].op = "createBooking" /\ req[p].status = 201
        /\ Done(q) /\ req[q].op = "deleteBooking" /\ req[q].status = 200
        /\ req[q].id = req[p].bookingId
        /\ ImmediatelyAfterCreate(p, q)
        /\ UserTotalBooths(bookings, req[p].user, req[p].bodyExhibition) > 0

(* C28: deleting twice.  When two deleteBooking requests for the same      *)
(* booking interleave (both arrive while the booking is still there, in    *)
(* the same state of the store), the quota counter of the booking's type   *)
(* ends exactly the booking's amount higher than before, not twice the     *)
(* amount; and a delete that arrives once the booking is gone is answered  *)
(* NotFound.                                                               *)
C28_DoubleDelete ==
    /\ \A p, q \in Procs :
          (/\ p # q
           /\ Done(p) /\ Done(q)
           /\ req[p].op = "deleteBooking" /\ req[q].op = "deleteBooking"
           /\ req[p].id = req[q].id
           /\ req[p].pre = req[q].pre
           /\ FindOne(PreBookings(p), req[p].id, req[p].user).exists
           /\ FindOne(PreBookings(q), req[q].id, req[q].user).exists
           /\ PreExhibitions(p)[PreBookings(p)[req[p].id].exhibition].exists)
          => LET b == PreBookings(p)[req[p].id]
             IN  Quota(exhibitions[b.exhibition], b.boothType)
                    = Quota(PreExhibitions(p)[b.exhibition], b.boothType) + b.amount
    /\ \A p \in Procs :
          (Done(p) /\ req[p].op = "deleteBooking"
                   /\ ~PreBookings(p)[req[p].id].exists)
             => NotFound(p)

(* C29: the cap under interleaving.  With the steps of two requests         *)
(* interleaved at every await (two createBooking requests of one user for   *)
(* one exhibition, or a create and an updateBooking of that user's          *)
(* booking), the amounts of a user's bookings on an exhibition sum to at    *)
(* most 6 in every reachable state.                                         *)
C29_CapInterleaved ==
    \A u \in Members, e \in ExhibitionIds :
        SumAmount(bookings, {b \in BookingsOn(bookings, e) : bookings[b].user = u})
            <= MaxBoothsPerUser

\* the bookings whose exhibition is gone
Orphans(es, bs) == {b \in BookingIds : bs[b].exists /\ ~es[bs[b].exhibition].exists}

\* deleteExhibition left the bookings alone; a list shows the principal's
\* orphans; a delete of an orphan by its owner or an admin succeeded
OrphansKept ==
    \A p \in Procs :
        /\ (Done(p) /\ req[p].op = "deleteExhibition")
              => bookings = PreBookings(p)
        /\ (Done(p) /\ req[p].op = "getBookings")
              => \A b \in Orphans(PreExhibitions(p), PreBookings(p)) :
                    (Role(req[p].user) = "admin"
                        \/ PreBookings(p)[b].user = req[p].user)
                    => b \in req[p].data
        /\ (Done(p) /\ req[p].op = "deleteBooking"
                /\ req[p].id \in Orphans(PreExhibitions(p), PreBookings(p))
                /\ FindOne(PreBookings(p), req[p].id, req[p].user).exists)
              => /\ req[p].status = 200
                 /\ ~bookings[req[p].id].exists

=============================================================================
